---- MODULE Spec2Model ----
(***************************************************************************)
(* Model of the CRL updater (crl/updater/updater.go): construction-time    *)
(* validation and parameter derivation (NewUpdater) and the shard boundary *)
(* calculator (getShardBoundaries).                                        *)
(*                                                                         *)
(* Time is counted in abstract nanosecond ticks.  A time.Time is an        *)
(* integer number of ticks since the zero time (time.Time{}); it has far   *)
(* more range than a Duration and never overflows here.  A time.Duration   *)
(* is a signed DurationBits-bit integer: arithmetic on it wraps, and       *)
(* Time.Sub saturates at MinDuration / MaxDuration as the Go library does. *)
(* The width and the seven-day limit are scaled down together so that the  *)
(* reachable states can be enumerated.                                     *)
(***************************************************************************)
EXTENDS Integers, Sequences, FiniteSets, TLC

\* ---------------------------------------------------------------- bounds
\* Width in bits of a time.Duration in the model (int64 in the program).
DurationBits == 7
\* Largest numShards handed to NewUpdater.
MaxShards == 3
\* Largest certLifetime handed to NewUpdater.
MaxCertLifetime == 3
\* Largest maxParallelism handed to NewUpdater.
MaxParallelism == 2
\* How far before and after the instant MaxDuration (counted from the zero
\* time) the clock readings go.
TimeSpan == 24

\* 7*24*time.Hour, the exclusive upper limit of updatePeriod, in ticks.
SevenDays == 3

MaxDuration == 2^(DurationBits - 1) - 1
MinDuration == -(2^(DurationBits - 1))
MinTime == MaxDuration - TimeSpan
MaxTime == MaxDuration + TimeSpan

\* ------------------------------------------------- Go integer arithmetic
Abs(x) == IF x < 0 THEN -x ELSE x

\* Go's integer division truncates toward zero.
GoDiv(a, b) ==
    IF (a >= 0) = (b > 0) THEN Abs(a) \div Abs(b) ELSE -(Abs(a) \div Abs(b))

\* Go's remainder has the sign of the dividend.
GoMod(a, b) == a - b * GoDiv(a, b)

\* Two's-complement wrap-around of a Duration computation.
Wrap(x) == ((x - MinDuration) % (2^DurationBits)) + MinDuration

\* Time.Sub: the difference as a Duration, saturated at the extremes.
TimeSub(t, u) ==
    IF t - u > MaxDuration THEN MaxDuration
    ELSE IF t - u < MinDuration THEN MinDuration
    ELSE t - u

\* The zero time.Time{}.
ZeroTime == 0

\* ------------------------------------------------------------ NewUpdater
NoError == ""

\* The three construction-time checks, in order.
validationError_StrictPeriod(numShards, updatePeriod, updateOffset) ==
    IF numShards < 1 THEN "must have positive number of shards"
    ELSE IF updatePeriod > SevenDays THEN "must update CRLs at least every 7 days"
    ELSE IF updateOffset >= updatePeriod THEN "update offset must be less than period"
    ELSE NoError

validationError(numShards, updatePeriod, updateOffset) ==
    IF numShards < 1 THEN "must have positive number of shards"
    ELSE IF updatePeriod >= SevenDays THEN "must update CRLs at least every 7 days"
    ELSE IF updateOffset >= updatePeriod THEN "update offset must be less than period"
    ELSE NoError

lookbackOf(updatePeriod) == Wrap(4 * updatePeriod)

tentativeShardWidthOf(lookbackPeriod, certLifetime, numShards) ==
    GoDiv(Wrap(lookbackPeriod + certLifetime), numShards)

tentativeLookforward(lookbackPeriod, certLifetime, numShards) ==
    Wrap(certLifetime
         + Wrap(4 * tentativeShardWidthOf(lookbackPeriod, certLifetime, numShards)))

\* Round the window up to a multiple of numShards.
roundLookforward_NoRounding(lookbackPeriod, lookforwardPeriod, numShards) ==
    lookforwardPeriod

roundLookforward(lookbackPeriod, lookforwardPeriod, numShards) ==
    LET window == Wrap(lookbackPeriod + lookforwardPeriod)
        offset == GoMod(window, numShards)
    IN  IF offset # 0
        THEN Wrap(lookforwardPeriod + (numShards - offset))
        ELSE lookforwardPeriod

coerceParallelism(maxParallelism) ==
    IF maxParallelism <= 0 THEN 1 ELSE maxParallelism

\* NewUpdater: <<updater>> and no error, or no updater and an error.
NewUpdater(numShards, certLifetime, updatePeriod, updateOffset, maxParallelism) ==
    LET e == validationError(numShards, updatePeriod, updateOffset)
        lookbackPeriod == lookbackOf(updatePeriod)
    IN  IF e # NoError
        THEN [updater |-> << >>, err |-> e]
        ELSE [updater |->
                << [numShards         |-> numShards,
                    lookbackPeriod    |-> lookbackPeriod,
                    lookforwardPeriod |->
                        roundLookforward(
                            lookbackPeriod,
                            tentativeLookforward(lookbackPeriod, certLifetime, numShards),
                            numShards),
                    updatePeriod      |-> updatePeriod,
                    updateOffset      |-> updateOffset,
                    maxParallelism    |-> coerceParallelism(maxParallelism)] >>,
              err |-> NoError]

\* ---------------------------------------------------- getShardBoundaries
windowWidthOf(u) == Wrap(u.lookbackPeriod + u.lookforwardPeriod)

shardWidthOf(u) == GoDiv(windowWidthOf(u), u.numShards)

\* Time elapsed since the zero time, modulo the window width.
atTimeOffsetOf(u, t) == GoMod(TimeSub(t, ZeroTime), windowWidthOf(u))

zeroStartOf(u, t) == t - atTimeOffsetOf(u, t)

\* The chunk is bumped when its end is before the left edge of the window.
behindWindow_After(u, t, shardEnd) == shardEnd > t - u.lookbackPeriod

behindWindow(u, t, shardEnd) == shardEnd < t - u.lookbackPeriod

\* The end of a bumped chunk.
bumpedEnd_NotMoved(u, shardEnd) == shardEnd

bumpedEnd(u, shardEnd) == shardEnd + windowWidthOf(u)

getShardBoundaries(u, t, idx) ==
    LET i           == GoMod(idx, u.numShards)
        shardOffset == Wrap(i * shardWidthOf(u))
        shardStart  == zeroStartOf(u, t) + shardOffset
        shardEnd    == shardStart + shardWidthOf(u)
    IN  IF behindWindow(u, t, shardEnd)
        THEN [start |-> shardStart + windowWidthOf(u), end |-> bumpedEnd(u, shardEnd)]
        ELSE [start |-> shardStart, end |-> shardEnd]

\* The modulo by the window width panics when the window is empty.
boundariesPanic(u) == windowWidthOf(u) = 0

\* ------------------------------------------------------ Run: alignment
\* The Unix epoch, counted from the zero time.  Every reading of the clock
\* in the model is at or after it, so UnixNano() is never negative.
UnixEpoch == MinTime

UnixNano(t) == t - UnixEpoch

\* The time Run waits before its first Tick.
waitNanosOf(u, t) ==
    LET currOffset == GoMod(UnixNano(t), u.updatePeriod)
    IN  IF currOffset <= u.updateOffset
        THEN u.updateOffset - currOffset
        ELSE u.updatePeriod - currOffset + u.updateOffset

\* The modulo by the update period panics when the period is zero.
alignPanic(u) == u.updatePeriod = 0

\* ----------------------------------------------------------------- state
VARIABLES
    pc,          \* "init", "rejected", "ready", "called", "aligned" or
                 \* "panicked"
    now,         \* the reading of cu.clk
    args,        \* the arguments NewUpdater was called with
    cu,          \* << >> (nil) or <<the crlUpdater>>
    err,         \* the error NewUpdater returned, NoError for nil
    atTime,      \* the atTime of the last getShardBoundaries call
    shardIdx,    \* its shardIdx
    shardStart,  \* the start it returned
    shardEnd,    \* the end it returned
    waitNanos,   \* the wait Run computed before its first Tick
    \* --- Run, Tick, tickIssuer and the shard workers
    cancelled,   \* ctx is done
    runPc,       \* Run: "wait", "tick", "coord", "select" or "returned"
    timerFired,  \* the channel of time.After(waitNanos) holds a value
    tickerC,     \* ticker.C holds a value
    fires,       \* how many times the ticker has fired
    issuers,     \* the keys of cu.issuers
    ticks,       \* how many Ticks Run has started
    todo,        \* Tick: the issuers of cu.issuers not yet ranged over
    tickResult,  \* Tick: its result variable
    observed,    \* tickHistogram: the results observed under label "all"
    pools,       \* one entry per tickIssuer call: channels, workers, result
    \* --- one tickShard call
    shPc,        \* the stream operation tickShard is about to make
    shIssuer,    \* its issuerNameID
    ops,         \* the stream operations made so far, with their outcome
    saRecvd,     \* the entries received from saStream
    caSent,      \* the frames sent on caStream
    caRecvd,     \* the chunks received from caStream
    csSent,      \* the frames sent on csStream
    crlLen,      \* the local crlLen
    crlHash,     \* the bytes written to crlHash
    logged,      \* the "Generated CRL" lines logged
    shRet        \* the error tickShard returned

\* The state of construction, boundary calculation and alignment.
calcVars ==
    <<pc, now, args, cu, err, atTime, shardIdx, shardStart, shardEnd, waitNanos>>

\* The state of the scheduler and the worker pools.
runVars ==
    <<cancelled, runPc, timerFired, tickerC, fires, issuers, ticks, todo,
      tickResult, observed, pools>>

\* The state of one shard pipeline.
pipeVars ==
    <<shPc, shIssuer, ops, saRecvd, caSent, caRecvd, csSent, crlLen, crlHash,
      logged, shRet>>

vars == <<calcVars, runVars, pipeVars>>

\* tickShard's return value nil.
NilError == [step |-> "", crlId |-> << >>, cause |-> NoError]

\* No tickShard call is being followed.
NoShard ==
    /\ shPc = "idle"
    /\ shIssuer = 0
    /\ ops = << >>
    /\ saRecvd = << >>
    /\ caSent = << >>
    /\ caRecvd = << >>
    /\ csSent = << >>
    /\ crlLen = 0
    /\ crlHash = << >>
    /\ logged = << >>
    /\ shRet = NilError

NoArgs ==
    [numShards |-> 0, certLifetime |-> 0, updatePeriod |-> 0,
     updateOffset |-> 0, maxParallelism |-> 0]

\* Clock readings on both sides of the instant from which the time elapsed
\* since the zero time no longer fits a Duration.
Times == MinTime .. MaxTime

\* The process may be started at any instant.
Init ==
    /\ pc = "init"
    /\ now \in Times
    /\ args = NoArgs
    /\ cu = << >>
    /\ err = NoError
    /\ atTime = 0
    /\ shardIdx = 0
    /\ shardStart = 0
    /\ shardEnd = 0
    /\ waitNanos = 0
    /\ cancelled = FALSE
    /\ runPc = "idle"
    /\ timerFired = FALSE
    /\ tickerC = FALSE
    /\ fires = 0
    /\ issuers = {}
    /\ ticks = 0
    /\ todo = {}
    /\ tickResult = "success"
    /\ observed = << >>
    /\ pools = << >>
    /\ NoShard

NewUpdaterCall ==
    /\ pc = "init"
    /\ \E numShards \in 0 .. MaxShards,
          certLifetime \in 0 .. MaxCertLifetime,
          updatePeriod \in 0 .. SevenDays,
          updateOffset \in -1 .. SevenDays,
          maxParallelism \in 0 .. MaxParallelism :
         LET r == NewUpdater(numShards, certLifetime, updatePeriod,
                             updateOffset, maxParallelism)
         IN  /\ args' = [numShards |-> numShards, certLifetime |-> certLifetime,
                         updatePeriod |-> updatePeriod,
                         updateOffset |-> updateOffset,
                         maxParallelism |-> maxParallelism]
             /\ cu' = r.updater
             /\ err' = r.err
             /\ pc' = IF r.err = NoError THEN "ready" ELSE "rejected"
    /\ UNCHANGED <<now, atTime, shardIdx, shardStart, shardEnd, waitNanos>>
    /\ UNCHANGED <<runVars, pipeVars>>

\* getShardBoundaries(atTime, idx) with atTime read from the clock, as Tick
\* reads it and tickShard passes it on.
GetShardBoundariesCall ==
    /\ pc \in {"ready", "called"}
    /\ \E idx \in 0 .. MaxShards :
         /\ atTime' = now
         /\ shardIdx' = idx
         /\ IF boundariesPanic(cu[1])
            THEN /\ pc' = "panicked"
                 /\ UNCHANGED <<shardStart, shardEnd>>
            ELSE /\ pc' = "called"
                 /\ shardStart' = getShardBoundaries(cu[1], now, idx).start
                 /\ shardEnd' = getShardBoundaries(cu[1], now, idx).end
    /\ UNCHANGED <<now, args, cu, err, waitNanos>>
    /\ UNCHANGED <<runVars, pipeVars>>

\* Time passes between two ticks; the boundaries of the last tick are gone.
ClockAdvance ==
    /\ pc \in {"ready", "called"}
    /\ now < MaxTime
    /\ now' = now + 1
    /\ pc' = "ready"
    /\ atTime' = 0
    /\ shardIdx' = 0
    /\ shardStart' = 0
    /\ shardEnd' = 0
    /\ UNCHANGED <<args, cu, err, waitNanos>>
    /\ UNCHANGED <<runVars, pipeVars>>

\* Run, up to its first select: the wait that aligns the first Tick.
RunAlign ==
    /\ pc = "ready"
    /\ IF alignPanic(cu[1])
       THEN /\ pc' = "panicked"
            /\ UNCHANGED waitNanos
       ELSE /\ pc' = "aligned"
            /\ waitNanos' = waitNanosOf(cu[1], now)
    /\ UNCHANGED <<now, args, cu, err, atTime, shardIdx, shardStart, shardEnd>>
    /\ UNCHANGED <<runVars, pipeVars>>

Next == NewUpdaterCall \/ GetShardBoundariesCall \/ ClockAdvance \/ RunAlign

Spec == Init /\ [][Next]_vars

\* ------------------------------------- Run, Tick, tickIssuer, shardWorker
\* Largest number of issuers an updater is configured with.
NumIssuers == 2
\* Largest numShards of the updaters that are run.
RunShards == 2
\* Largest number of tickShard calls a run is followed for.
MaxShardCalls == 4

\* What a tickShard call can return: nil or the error of a failed step; once
\* ctx is done the failure is the cancellation.
tickShardOutcomes(ctxDone) ==
    IF ctxDone THEN {NoError, "context canceled"} ELSE {NoError, "rpc failed"}

\* The number of shardWorker goroutines tickIssuer starts.
workerCount_PerShard(u) == u.numShards

workerCount(u) == u.maxParallelism

\* What tickIssuer has returned: nothing yet, nil, or the wrapped error.
Running == [state |-> "running", shardIdx |-> 0, cause |-> NoError]
ReturnedNil == [state |-> "nil", shardIdx |-> 0, cause |-> NoError]

\* fmt.Errorf("updating shard %d: %w", res.shardIdx, res.err); i is the
\* loop variable of the receiving loop.
issuerError_LoopIndex(i, res) ==
    [state |-> "updating shard", shardIdx |-> i, cause |-> res.err]

issuerError(i, res) ==
    [state |-> "updating shard", shardIdx |-> res.shardIdx, cause |-> res.err]

\* The atTime Tick passes to tickIssuer, which reads the clock itself only
\* for its latency metric.
tickTimeOf_Clock(at, clock) == clock

tickTimeOf(at, clock) == at

\* The capacity of the shardResults channel.
resultsCap_Parallelism(u) == u.maxParallelism

resultsCap(u) == u.numShards

\* Whether a worker that took an index returns instead of calling tickShard.
workerSkips_AfterReturn(ctxDone, ret) == ctxDone \/ ret.state # "running"

workerSkips(ctxDone, ret) == ctxDone

\* tickIssuer up to its first receive: the workers are started, the index
\* channel is filled with 0 .. numShards-1 and closed.  The shardWorker
\* goroutines differ in nothing but their position, so a pool counts those
\* waiting on the index channel (idle) and those that have returned
\* (exited), and holds the shard indices of those inside tickShard
\* (inflight).
NewPool(u, issuer, tick, at) ==
    [issuer  |-> issuer,
     tick    |-> tick,
     atTime  |-> at,
     started |-> << >>,
     idxs    |-> [i \in 1 .. u.numShards |-> i - 1],
     results |-> << >>,
     idle     |-> workerCount(u),
     inflight |-> {},
     exited   |-> 0,
     got     |-> << >>,
     ret     |-> Running]

\* The issuers Tick still has to range over once tickIssuer has returned.
remainingIssuers_StopOnError(rest, issuer, ret) ==
    IF ret.state = "nil" THEN rest \ {issuer} ELSE {}

remainingIssuers(rest, issuer, ret) == rest \ {issuer}

\* Tick's result variable once tickIssuer has returned.
resultAfter(result, ret) == IF ret.state = "nil" THEN result ELSE "failed"

\* The updater has been constructed and Run is at its first select.
InitRun ==
    /\ \E numShards \in 1 .. RunShards, maxParallelism \in 0 .. MaxParallelism :
         /\ args = [numShards |-> numShards, certLifetime |-> 1,
                    updatePeriod |-> 1, updateOffset |-> 0,
                    maxParallelism |-> maxParallelism]
         /\ cu = NewUpdater(numShards, 1, 1, 0, maxParallelism).updater
    /\ \E n \in 1 .. NumIssuers :
         /\ n * cu[1].numShards <= MaxShardCalls
         /\ issuers = 1 .. n
    /\ pc = "aligned"
    /\ now = MinTime
    /\ err = NoError
    /\ atTime = 0
    /\ shardIdx = 0
    /\ shardStart = 0
    /\ shardEnd = 0
    /\ waitNanos = waitNanosOf(cu[1], now)
    /\ cancelled = FALSE
    /\ runPc = "wait"
    /\ timerFired = FALSE
    /\ tickerC = FALSE
    /\ fires = 0
    /\ ticks = 0
    /\ todo = {}
    /\ tickResult = "success"
    /\ observed = << >>
    /\ pools = << >>
    /\ NoShard

\* ctx is cancelled by the caller of Run.
Cancel ==
    /\ ~cancelled
    /\ cancelled' = TRUE
    /\ UNCHANGED <<runPc, timerFired, tickerC, fires, ticks, todo, tickResult,
                   observed, pools>>
    /\ UNCHANGED <<issuers, calcVars, pipeVars>>

\* The ticker is followed while the Ticks it can start stay within MaxCalls
\* calls of tickIssuer.
tickerBound(fired) ==
    (fired + 2) * Cardinality(issuers) * cu[1].numShards <= MaxShardCalls

\* The timer of time.After(waitNanos) fires.
TimerFire ==
    /\ runPc = "wait"
    /\ ~timerFired
    /\ timerFired' = TRUE
    /\ now' = now + waitNanos
    /\ UNCHANGED <<cancelled, runPc, tickerC, fires, ticks, todo, tickResult,
                   observed, pools>>
    /\ UNCHANGED <<pc, args, cu, err, atTime, shardIdx, shardStart, shardEnd,
                   waitNanos>>
    /\ UNCHANGED <<issuers, pipeVars>>

\* The ticker, created before the first Tick, fires; ticker.C has room for
\* one value.
TickerFire ==
    /\ ticks >= 1
    /\ runPc # "returned"
    /\ ~tickerC
    /\ tickerBound(fires)
    /\ tickerC' = TRUE
    /\ fires' = fires + 1
    /\ now' = now + cu[1].updatePeriod
    /\ UNCHANGED <<cancelled, runPc, timerFired, ticks, todo, tickResult,
                   observed, pools>>
    /\ UNCHANGED <<pc, args, cu, err, atTime, shardIdx, shardStart, shardEnd,
                   waitNanos>>
    /\ UNCHANGED <<issuers, pipeVars>>

\* Run calls Tick: atTime is read, result starts as "success", the range
\* over cu.issuers begins.
StartTick ==
    /\ atTime' = now
    /\ ticks' = ticks + 1
    /\ todo' = issuers
    /\ tickResult' = "success"
    /\ runPc' = "tick"

\* The first select of Run: either case that is ready may be taken.
RunFirstSelect ==
    /\ runPc = "wait"
    /\ \/ /\ cancelled
          /\ runPc' = "returned"
          /\ UNCHANGED <<atTime, ticks, todo, tickResult>>
       \/ /\ timerFired
          /\ StartTick
    /\ UNCHANGED <<cancelled, timerFired, tickerC, fires, observed, pools>>
    /\ UNCHANGED <<pc, now, args, cu, err, shardIdx, shardStart, shardEnd,
                   waitNanos>>
    /\ UNCHANGED <<issuers, pipeVars>>

\* The select of the loop of Run: either case that is ready may be taken.
RunSelect ==
    /\ runPc = "select"
    /\ \/ /\ tickerC
          /\ tickerC' = FALSE
          /\ StartTick
       \/ /\ cancelled
          /\ runPc' = "returned"
          /\ UNCHANGED <<atTime, tickerC, ticks, todo, tickResult>>
    /\ UNCHANGED <<cancelled, timerFired, fires, observed, pools>>
    /\ UNCHANGED <<pc, now, args, cu, err, shardIdx, shardStart, shardEnd,
                   waitNanos>>
    /\ UNCHANGED <<issuers, pipeVars>>

\* Tick takes the next issuer of the map (in any order) and calls tickIssuer,
\* which runs up to its first receive from shardResults.
TickNext ==
    /\ runPc = "tick"
    /\ \E issuer \in todo :
         pools' = Append(pools, NewPool(cu[1], issuer, ticks,
                                        tickTimeOf(atTime, now)))
    /\ runPc' = "coord"
    /\ UNCHANGED <<cancelled, timerFired, tickerC, fires, ticks, todo,
                   tickResult, observed>>
    /\ UNCHANGED <<issuers, calcVars, pipeVars>>

\* Tick has ranged over every issuer: it observes its result under "all" and
\* returns; Run checks ctx.Err() at the top of its loop.
TickReturn ==
    /\ runPc = "tick"
    /\ todo = {}
    /\ observed' = Append(observed, [tick |-> ticks, result |-> tickResult])
    /\ runPc' = IF cancelled THEN "returned" ELSE "select"
    /\ UNCHANGED <<cancelled, timerFired, tickerC, fires, ticks, todo,
                   tickResult, pools>>
    /\ UNCHANGED <<issuers, calcVars, pipeVars>>

\* tickIssuer receives one shardResult.  A non-nil error makes it return at
\* once, the numShards-th nil result makes it return nil; Tick then records
\* a failure and goes on with the range.
CoordRecv ==
    /\ runPc = "coord"
    /\ LET c    == Len(pools)
           pool == pools[c]
       IN  /\ pool.results # << >>
           /\ LET res == Head(pool.results)
                  got == Append(pool.got, res)
                  ret == IF res.err # NoError
                         THEN issuerError(Len(pool.got), res)
                         ELSE IF Len(got) = cu[1].numShards
                         THEN ReturnedNil
                         ELSE Running
              IN  /\ pools' = [pools EXCEPT ![c] =
                                 [pool EXCEPT !.results = Tail(pool.results),
                                              !.got = got,
                                              !.ret = ret]]
                  /\ IF ret.state = "running"
                     THEN UNCHANGED <<runPc, todo, tickResult>>
                     ELSE /\ runPc' = "tick"
                          /\ todo' = remainingIssuers(todo, pool.issuer, ret)
                          /\ tickResult' = resultAfter(tickResult, ret)
    /\ UNCHANGED <<cancelled, timerFired, tickerC, fires, ticks, observed>>
    /\ UNCHANGED <<issuers, calcVars, pipeVars>>

\* A shardWorker takes the next index: the range ends when the closed
\* channel is empty; with ctx done the worker returns; otherwise it calls
\* tickShard.
WorkerRecv(c) ==
    /\ pools[c].idle > 0
    /\ LET pool == pools[c]
       IN  IF pool.idxs = << >>
           THEN pools' = [pools EXCEPT ![c].idle = @ - 1, ![c].exited = @ + 1]
           ELSE IF workerSkips(cancelled, pool.ret)
           THEN pools' = [pools EXCEPT ![c].idxs = Tail(@),
                                       ![c].idle = @ - 1,
                                       ![c].exited = @ + 1]
           ELSE pools' = [pools EXCEPT ![c].idxs = Tail(@),
                                       ![c].idle = @ - 1,
                                       ![c].started = Append(@, Head(pool.idxs)),
                                       ![c].inflight = @ \cup {Head(pool.idxs)}]
    /\ UNCHANGED <<cancelled, runPc, timerFired, tickerC, fires, ticks, todo,
                   tickResult, observed>>
    /\ UNCHANGED <<issuers, calcVars, pipeVars>>

\* The tickShard call of a worker returns and the worker sends the
\* shardResult; the channel has room for numShards results.
ShardReturn(c, idx) ==
    /\ idx \in pools[c].inflight
    /\ Len(pools[c].results) < resultsCap(cu[1])
    /\ \E e \in tickShardOutcomes(cancelled) :
         pools' = [pools EXCEPT
            ![c].results = Append(@, [shardIdx |-> idx, err |-> e]),
            ![c].inflight = @ \ {idx},
            ![c].idle = @ + 1]
    /\ UNCHANGED <<cancelled, runPc, timerFired, tickerC, fires, ticks, todo,
                   tickResult, observed>>
    /\ UNCHANGED <<issuers, calcVars, pipeVars>>

\* One step of some shardWorker goroutine.
WorkerStep ==
    \E c \in 1 .. Len(pools) :
        \/ WorkerRecv(c)
        \/ \E idx \in pools[c].inflight : ShardReturn(c, idx)

\* One step of the goroutine that runs Run, Tick and tickIssuer.
RunStep == RunFirstSelect \/ RunSelect \/ TickNext \/ TickReturn \/ CoordRecv

NextRun == Cancel \/ TimerFire \/ TickerFire \/ RunStep \/ WorkerStep

SpecRun == InitRun /\ [][NextRun]_vars

\* The goroutines are scheduled fairly and every tickShard call returns; the
\* caller's cancellation and the timers are under no obligation.
SpecRunFair == SpecRun /\ WF_vars(RunStep) /\ WF_vars(WorkerStep)

\* ----------------------------------------------------------- tickShard
\* Largest number of entries the SA stream yields.
MaxEntries == 2
\* Largest number of chunks the CA stream yields.
MaxChunks == 2

\* The revocation entries the SA may yield.
EntryValues == 1 .. MaxEntries

\* The byte strings the CA may yield as one chunk.
ChunkValues == {<<1>>, <<2, 3>>}

\* The error of a failed RPC, and the end of a stream.
RpcFailed == "rpc failed"
EOF == "EOF"

\* crl.Id(issuerNameID, crl.Number(atTime), shardIdx)
crlIdOf(issuer, at, idx) ==
    [issuerNameID |-> issuer, number |-> UnixNano(at), shardIdx |-> idx]

\* The text each failing operation is wrapped in.
stepOf(op) ==
    CASE op = "sa.open"          -> "connecting to SA"
      [] op = "ca.open"          -> "connecting to CA"
      [] op = "ca.send.metadata" -> "sending CA metadata"
      [] op = "sa.recv"          -> "retrieving entry from SA"
      [] op = "ca.send.entry"    -> "sending entry to CA"
      [] op = "ca.closeSend"     -> "closing CA request stream"
      [] op = "cs.open"          -> "connecting to CRLStorer"
      [] op = "cs.send.metadata" -> "sending CRLStorer metadata"
      [] op = "ca.recv"          -> "receiving CRL bytes"
      [] op = "cs.send.chunk"    -> "uploading CRL bytes"
      [] op = "cs.closeAndRecv"  -> "closing CRLStorer upload stream"

\* fmt.Errorf("<step> for %s: %w", crlId, err)
shardError(op, cause) ==
    [step  |-> stepOf(op),
     crlId |-> crlIdOf(shIssuer, atTime, shardIdx),
     cause |-> cause]

\* The request of cu.sa.GetRevokedCerts.
saRequest(u, issuer, at, idx) ==
    [issuerNameID  |-> issuer,
     expiresAfter  |-> UnixNano(getShardBoundaries(u, at, idx).start),
     expiresBefore |-> UnixNano(getShardBoundaries(u, at, idx).end),
     revokedBefore |-> UnixNano(at)]

\* The storage authority streams the entry of a certificate exactly when the
\* issuer revoked it before revokedBefore and its expiry lies in
\* [expiresAfter, expiresBefore).
saYields(req, cert) ==
    /\ cert.revoked
    /\ cert.issuerNameID = req.issuerNameID
    /\ req.expiresAfter <= UnixNano(cert.expiry)
    /\ UnixNano(cert.expiry) < req.expiresBefore
    /\ UnixNano(cert.revokedAt) < req.revokedBefore

\* The frames of the two upload streams.
caMetadata(issuer, at, idx) ==
    [kind |-> "metadata", issuerNameID |-> issuer, thisUpdate |-> UnixNano(at),
     shardIdx |-> idx]

entryFrame(entry) == [kind |-> "entry", entry |-> entry]

csMetadata(issuer, at, idx) ==
    [kind |-> "metadata", issuerNameID |-> issuer, number |-> UnixNano(at),
     shardIdx |-> idx]

chunkFrame(chunk) == [kind |-> "chunk", chunk |-> chunk]

\* crlLen += len(out.Chunk)
addLen_CountChunks(len, chunk) == len + 1

addLen(len, chunk) == len + Len(chunk)

\* crlHash.Write(out.Chunk)
hashWrite(written, chunk) == written \o chunk

\* The "Generated CRL" line.
generatedLine(id, size, hash) == [id |-> id, size |-> size, hash |-> hash]

\* Where tickShard goes once the SA stream has ended.
afterEntries_SkipClose == "csOpen"

afterEntries == "closeSend"

\* Where tickShard goes once the CA stream has ended.
afterChunks_Return == "returned"

afterChunks == "closeAndRecv"

\* Where tickShard goes when an operation has failed.
onError_KeepGoing(next) == next

onError(next) == "returned"

\* The outcome of one stream operation: the operation is recorded; a failure
\* makes tickShard return the wrapped error, otherwise it goes on to next.
Outcome(op, e, next) ==
    /\ ops' = Append(ops, [op |-> op, err |-> e])
    /\ IF e = NoError
       THEN /\ shPc' = next
            /\ UNCHANGED shRet
       ELSE /\ shPc' = onError(next)
            /\ shRet' = shardError(op, e)

\* tickShard has been called by a worker, derived crlId and computed the
\* boundaries of its shard.
InitShard ==
    /\ \E numShards \in 1 .. RunShards :
         /\ args = [numShards |-> numShards, certLifetime |-> 1,
                    updatePeriod |-> 1, updateOffset |-> 0,
                    maxParallelism |-> 1]
         /\ cu = NewUpdater(numShards, 1, 1, 0, 1).updater
    /\ err = NoError
    /\ pc = "called"
    /\ now \in {MinTime, MinTime + 1}
    /\ atTime = now
    /\ shardIdx \in 0 .. cu[1].numShards - 1
    /\ shardStart = getShardBoundaries(cu[1], atTime, shardIdx).start
    /\ shardEnd = getShardBoundaries(cu[1], atTime, shardIdx).end
    /\ waitNanos = 0
    /\ cancelled = FALSE
    /\ runPc = "idle"
    /\ timerFired = FALSE
    /\ tickerC = FALSE
    /\ fires = 0
    /\ issuers = 1 .. NumIssuers
    /\ ticks = 0
    /\ todo = {}
    /\ tickResult = "success"
    /\ observed = << >>
    /\ pools = << >>
    /\ shPc = "saOpen"
    /\ shIssuer \in issuers
    /\ ops = << >>
    /\ saRecvd = << >>
    /\ caSent = << >>
    /\ caRecvd = << >>
    /\ csSent = << >>
    /\ crlLen = 0
    /\ crlHash = << >>
    /\ logged = << >>
    /\ shRet = NilError

\* cu.sa.GetRevokedCerts
SAOpen ==
    /\ shPc = "saOpen"
    /\ \E e \in {NoError, RpcFailed} :
         /\ ops' = Append(ops, [op |-> "sa.open", err |-> e,
                                req |-> saRequest(cu[1], shIssuer, atTime,
                                                  shardIdx)])
         /\ IF e = NoError
            THEN /\ shPc' = "caOpen"
                 /\ UNCHANGED shRet
            ELSE /\ shPc' = onError("caOpen")
                 /\ shRet' = shardError("sa.open", e)
    /\ UNCHANGED <<shIssuer, saRecvd, caSent, caRecvd, csSent, crlLen, crlHash,
                   logged>>
    /\ UNCHANGED <<calcVars, runVars>>

\* cu.ca.GenerateCRL
CAOpen ==
    /\ shPc = "caOpen"
    /\ \E e \in {NoError, RpcFailed} : Outcome("ca.open", e, "caMetadata")
    /\ UNCHANGED <<shIssuer, saRecvd, caSent, caRecvd, csSent, crlLen, crlHash,
                   logged>>
    /\ UNCHANGED <<calcVars, runVars>>

\* caStream.Send of the metadata frame
CASendMetadata ==
    /\ shPc = "caMetadata"
    /\ \E e \in {NoError, RpcFailed} :
         /\ Outcome("ca.send.metadata", e, "saRecv")
         /\ caSent' = IF e = NoError
                      THEN Append(caSent, caMetadata(shIssuer, atTime, shardIdx))
                      ELSE caSent
    /\ UNCHANGED <<shIssuer, saRecvd, caRecvd, csSent, crlLen, crlHash, logged>>
    /\ UNCHANGED <<calcVars, runVars>>

\* saStream.Recv: an entry, the end of the stream, or an error
SARecv ==
    /\ shPc = "saRecv"
    /\ \/ /\ Len(saRecvd) < MaxEntries
          /\ \E entry \in EntryValues : saRecvd' = Append(saRecvd, entry)
          /\ Outcome("sa.recv", NoError, "caEntry")
       \/ /\ ops' = Append(ops, [op |-> "sa.recv", err |-> EOF])
          /\ shPc' = afterEntries
          /\ UNCHANGED <<saRecvd, shRet>>
       \/ /\ Outcome("sa.recv", RpcFailed, "caEntry")
          /\ UNCHANGED saRecvd
    /\ UNCHANGED <<shIssuer, caSent, caRecvd, csSent, crlLen, crlHash, logged>>
    /\ UNCHANGED <<calcVars, runVars>>

\* caStream.Send of the entry just received
CASendEntry ==
    /\ shPc = "caEntry"
    /\ \E e \in {NoError, RpcFailed} :
         /\ Outcome("ca.send.entry", e, "saRecv")
         /\ caSent' = IF e = NoError
                      THEN Append(caSent, entryFrame(saRecvd[Len(saRecvd)]))
                      ELSE caSent
    /\ UNCHANGED <<shIssuer, saRecvd, caRecvd, csSent, crlLen, crlHash, logged>>
    /\ UNCHANGED <<calcVars, runVars>>

\* caStream.CloseSend
CACloseSend ==
    /\ shPc = "closeSend"
    /\ \E e \in {NoError, RpcFailed} : Outcome("ca.closeSend", e, "csOpen")
    /\ UNCHANGED <<shIssuer, saRecvd, caSent, caRecvd, csSent, crlLen, crlHash,
                   logged>>
    /\ UNCHANGED <<calcVars, runVars>>

\* cu.cs.UploadCRL
CSOpen ==
    /\ shPc = "csOpen"
    /\ \E e \in {NoError, RpcFailed} : Outcome("cs.open", e, "csMetadata")
    /\ UNCHANGED <<shIssuer, saRecvd, caSent, caRecvd, csSent, crlLen, crlHash,
                   logged>>
    /\ UNCHANGED <<calcVars, runVars>>

\* csStream.Send of the metadata frame; crlLen and crlHash are initialised
CSSendMetadata ==
    /\ shPc = "csMetadata"
    /\ \E e \in {NoError, RpcFailed} :
         /\ Outcome("cs.send.metadata", e, "caRecv")
         /\ csSent' = IF e = NoError
                      THEN Append(csSent, csMetadata(shIssuer, atTime, shardIdx))
                      ELSE csSent
    /\ UNCHANGED <<shIssuer, saRecvd, caSent, caRecvd, crlLen, crlHash, logged>>
    /\ UNCHANGED <<calcVars, runVars>>

\* caStream.Recv: a chunk, the end of the stream (the loop ends and the
\* "Generated CRL" line is logged), or an error
CARecv ==
    /\ shPc = "caRecv"
    /\ \/ /\ Len(caRecvd) < MaxChunks
          /\ \E chunk \in ChunkValues : caRecvd' = Append(caRecvd, chunk)
          /\ Outcome("ca.recv", NoError, "csChunk")
          /\ UNCHANGED logged
       \/ /\ ops' = Append(ops, [op |-> "ca.recv", err |-> EOF])
          /\ shPc' = afterChunks
          /\ logged' = Append(logged,
                 generatedLine(crlIdOf(shIssuer, atTime, shardIdx),
                               crlLen, crlHash))
          /\ UNCHANGED <<caRecvd, shRet>>
       \/ /\ Outcome("ca.recv", RpcFailed, "csChunk")
          /\ UNCHANGED <<caRecvd, logged>>
    /\ UNCHANGED <<shIssuer, saRecvd, caSent, csSent, crlLen, crlHash>>
    /\ UNCHANGED <<calcVars, runVars>>

\* csStream.Send of the chunk just received, then the size and hash update
CSSendChunk ==
    /\ shPc = "csChunk"
    /\ LET chunk == caRecvd[Len(caRecvd)]
       IN  \E e \in {NoError, RpcFailed} :
             /\ Outcome("cs.send.chunk", e, "caRecv")
             /\ IF e = NoError
                THEN /\ csSent' = Append(csSent, chunkFrame(chunk))
                     /\ crlLen' = addLen(crlLen, chunk)
                     /\ crlHash' = hashWrite(crlHash, chunk)
                ELSE UNCHANGED <<csSent, crlLen, crlHash>>
    /\ UNCHANGED <<shIssuer, saRecvd, caSent, caRecvd, logged>>
    /\ UNCHANGED <<calcVars, runVars>>

\* csStream.CloseAndRecv, then return nil
CSCloseAndRecv ==
    /\ shPc = "closeAndRecv"
    /\ \E e \in {NoError, RpcFailed} :
         Outcome("cs.closeAndRecv", e, "returned")
    /\ UNCHANGED <<shIssuer, saRecvd, caSent, caRecvd, csSent, crlLen, crlHash,
                   logged>>
    /\ UNCHANGED <<calcVars, runVars>>

NextShard ==
    \/ SAOpen
    \/ CAOpen
    \/ CASendMetadata
    \/ SARecv
    \/ CASendEntry
    \/ CACloseSend
    \/ CSOpen
    \/ CSSendMetadata
    \/ CARecv
    \/ CSSendChunk
    \/ CSCloseAndRecv

SpecShard == InitShard /\ [][NextShard]_vars

\* ------------------------------------------------------------ properties
\* NewUpdater returned an updater.
Accepted == pc \in {"ready", "called", "panicked"}

\* The arguments lie in the documented UpdaterConfig ranges.
InRange ==
    /\ args.numShards >= 1
    /\ args.certLifetime > 0
    /\ args.updatePeriod < SevenDays
    /\ 0 <= args.updateOffset
    /\ args.updateOffset < args.updatePeriod

\* A getShardBoundaries result for an in-range configuration is at hand.
Returned == pc = "called" /\ InRange

Lookback == cu[1].lookbackPeriod
Lookforward == cu[1].lookforwardPeriod
NumShards == cu[1].numShards
WindowWidth == Lookback + Lookforward

\* The boundaries of every shard at the atTime of the last call.
BoundariesAt(i) == getShardBoundaries(cu[1], atTime, i)

\* C1: every expiry e with atTime - lookbackPeriod <= e <= atTime +
\* certLifetime lies in [start, end) of exactly one shard index.
C1_ExpiryInExactlyOneShard ==
    Returned =>
        \A e \in (atTime - Lookback) .. (atTime + args.certLifetime) :
            Cardinality({i \in 0 .. NumShards - 1 :
                            /\ BoundariesAt(i).start <= e
                            /\ e < BoundariesAt(i).end}) = 1

\* C2: shard stability.  For a fixed shardIdx the starts (and the ends)
\* returned at any two instants differ by a multiple of windowWidth;
\* atTimeOffset is exactly atTime mod windowWidth and zeroStart is a
\* multiple of windowWidth away from the zero time.
C2_ShardStability ==
    Returned =>
        /\ \A t2 \in Times :
              /\ (getShardBoundaries(cu[1], t2, shardIdx).start - shardStart)
                     % WindowWidth = 0
              /\ (getShardBoundaries(cu[1], t2, shardIdx).end - shardEnd)
                     % WindowWidth = 0
        /\ atTimeOffsetOf(cu[1], atTime) = (atTime - ZeroTime) % WindowWidth
        /\ (zeroStartOf(cu[1], atTime) - ZeroTime) % WindowWidth = 0

\* C3: leftmost selection.  end >= atTime - lookbackPeriod, and either
\* start <= atTime - lookbackPeriod or the previous repetition of the chunk
\* ends at or before atTime - lookbackPeriod.
C3_LeftmostSelection ==
    (Returned /\ shardIdx < NumShards) =>
        /\ shardEnd >= atTime - Lookback
        /\ \/ shardStart <= atTime - Lookback
           \/ shardEnd - WindowWidth <= atTime - Lookback

\* C4: [start, end) intersects [atTime - lookbackPeriod, atTime +
\* lookforwardPeriod).
C4_OverlapsWindow ==
    (Returned /\ shardIdx < NumShards) =>
        /\ shardStart < atTime + Lookforward
        /\ atTime - Lookback < shardEnd
        /\ shardStart < shardEnd

\* C5: window coverage.  At a fixed atTime the numShards intervals are
\* pairwise disjoint, and their union is one contiguous range of width
\* windowWidth that overlaps [atTime - lookbackPeriod, atTime +
\* lookforwardPeriod).
C5_WindowCoverage ==
    pc = "called" =>
        LET idxs == 0 .. NumShards - 1
            lo == CHOOSE x \in {BoundariesAt(i).start : i \in idxs} :
                      \A i \in idxs : x <= BoundariesAt(i).start
            hi == CHOOSE x \in {BoundariesAt(i).end : i \in idxs} :
                      \A i \in idxs : BoundariesAt(i).end <= x
        IN  /\ \A i, j \in idxs :
                  i # j => \/ BoundariesAt(i).end <= BoundariesAt(j).start
                           \/ BoundariesAt(j).end <= BoundariesAt(i).start
            /\ hi - lo = WindowWidth
            /\ \A x \in lo .. hi - 1 :
                  \E i \in idxs : /\ BoundariesAt(i).start <= x
                                  /\ x < BoundariesAt(i).end
            /\ lo < atTime + Lookforward
            /\ atTime - Lookback < hi
            /\ \E i \in idxs : /\ BoundariesAt(i).start = shardStart
                               /\ BoundariesAt(i).end = shardEnd

\* A call whose result spans the end of the epoch: some shard was bumped.
C5_Witness ==
    /\ pc = "called"
    /\ NumShards >= 2
    /\ \E i \in 0 .. NumShards - 1 :
          BoundariesAt(i).start >= zeroStartOf(cu[1], atTime) + WindowWidth
    /\ \E i \in 0 .. NumShards - 1 :
          BoundariesAt(i).start < zeroStartOf(cu[1], atTime) + WindowWidth

\* C6: shard width exact.  end - start = (lookbackPeriod +
\* lookforwardPeriod) / numShards with no remainder, bumped or not.
C6_ShardWidthExact ==
    pc = "called" =>
        /\ shardEnd - shardStart = WindowWidth \div NumShards
        /\ (shardEnd - shardStart) * NumShards = WindowWidth

\* A returned interval that was bumped forward by one windowWidth.
C6_Witness ==
    /\ pc = "called"
    /\ shardStart >= zeroStartOf(cu[1], atTime) + WindowWidth

C8_BufferOfOneShardWidth ==
    (Accepted /\ InRange) =>
        Lookforward - args.certLifetime >= WindowWidth \div NumShards

\* C9: construction-time rejection.  NewUpdater returns an error and no
\* updater exactly when numShards < 1, updatePeriod >= 168h or updateOffset
\* >= updatePeriod; it succeeds for updatePeriod = 168h - 1; maxParallelism
\* <= 0 is never an error and becomes 1.
C9_ConstructionRejection ==
    pc # "init" =>
        /\ (\/ args.numShards < 1
            \/ args.updatePeriod >= SevenDays
            \/ args.updateOffset >= args.updatePeriod)
              => (err # NoError /\ cu = << >> /\ pc = "rejected")
        /\ (/\ args.numShards >= 1
            /\ args.updatePeriod < SevenDays
            /\ args.updateOffset < args.updatePeriod)
              => (err = NoError /\ Len(cu) = 1 /\ pc # "rejected")
        /\ (err = NoError /\ args.maxParallelism <= 0)
              => cu[1].maxParallelism = 1
        /\ (err = NoError /\ args.maxParallelism > 0)
              => cu[1].maxParallelism = args.maxParallelism

\* updatePeriod one tick short of the limit, maxParallelism coerced.
C9_Witness ==
    /\ pc = "ready"
    /\ args.updatePeriod = SevenDays - 1
    /\ args.maxParallelism <= 0
    /\ cu[1].maxParallelism = 1

\* C10: every updater NewUpdater returns satisfies numShards >= 1,
\* certLifetime > 0, updatePeriod < 7 days, 0 <= updateOffset <
\* updatePeriod and maxParallelism >= 1.
C10_UpdaterConfigRanges ==
    Accepted =>
        /\ cu[1].numShards >= 1
        /\ args.certLifetime > 0
        /\ cu[1].updatePeriod < SevenDays
        /\ 0 <= cu[1].updateOffset
        /\ cu[1].updateOffset < cu[1].updatePeriod
        /\ cu[1].maxParallelism >= 1

\* C17: alignment of the first tick.  For every accepted (updatePeriod,
\* updateOffset) and every now >= 0 the wait satisfies 0 <= wait <
\* updatePeriod and (now + wait) mod updatePeriod = updateOffset.
C17_FirstTickAligned ==
    pc = "aligned" =>
        /\ 0 <= waitNanos
        /\ waitNanos < cu[1].updatePeriod
        /\ UnixNano(now) >= 0
        /\ (UnixNano(now) + waitNanos) % cu[1].updatePeriod = cu[1].updateOffset


\* ------------------------------------------- properties of the scheduler
\* The tickIssuer calls made so far.
Calls == 1 .. Len(pools)

\* The tickIssuer call has returned an error.
Failed(c) == pools[c].ret.state = "updating shard"

\* C11: at every moment of a tickIssuer call, at most maxParallelism of the
\* tickShard executions it started are in flight.
C11_ParallelismBound ==
    \A c \in Calls :
        Cardinality(pools[c].inflight) <= cu[1].maxParallelism

\* Every worker of a call is inside tickShard while a shard index waits.
C11_Witness ==
    \E c \in Calls :
        /\ Cardinality(pools[c].inflight) = cu[1].maxParallelism
        /\ pools[c].idxs # << >>

\* C12: tickIssuer returns nil only after numShards results that all carry a
\* nil error; it returns an error on the first failing result it receives,
\* wrapping that result's index and error, and while it has not returned
\* every result received so far was nil.
C12_FirstFailureResult ==
    \A c \in Calls :
        LET pool == pools[c]
            n    == Len(pool.got)
        IN  /\ pool.ret.state = "nil" =>
                 /\ n = cu[1].numShards
                 /\ \A k \in 1 .. n : pool.got[k].err = NoError
            /\ pool.ret.state = "updating shard" =>
                 /\ n >= 1
                 /\ pool.got[n].err # NoError
                 /\ \A k \in 1 .. n - 1 : pool.got[k].err = NoError
                 /\ pool.ret.shardIdx = pool.got[n].shardIdx
                 /\ pool.ret.cause = pool.got[n].err
            /\ pool.ret.state = "running" =>
                 /\ n < cu[1].numShards
                 /\ \A k \in 1 .. n : pool.got[k].err = NoError

\* A call returned on its first result, the failure of a shard that is not
\* the lowest one, while another shard was still in flight.
C12_Witness ==
    \E c \in Calls :
        /\ Failed(c)
        /\ Len(pools[c].got) = 1
        /\ pools[c].ret.shardIdx > 0
        /\ pools[c].inflight # {}

\* C13: when a Tick returns, tickIssuer has been called exactly once for
\* every configured issuer, and the result observed under "all" is "failed"
\* exactly when one of those calls returned an error.
C13_TickIsolatesFailures ==
    \A o \in 1 .. Len(observed) :
        LET calls == {c \in Calls : pools[c].tick = observed[o].tick}
        IN  /\ \A i \in issuers :
                 Cardinality({c \in calls : pools[c].issuer = i}) = 1
            /\ \A c \in calls : pools[c].issuer \in issuers
            /\ observed[o].result \in {"success", "failed"}
            /\ observed[o].result = "failed" <=> \E c \in calls : Failed(c)

\* A Tick returned "failed" although the issuer called after the failing
\* one succeeded.
C13_Witness ==
    \E o \in 1 .. Len(observed) :
        /\ observed[o].result = "failed"
        /\ \E c, d \in Calls :
             /\ c < d
             /\ pools[c].tick = observed[o].tick
             /\ pools[d].tick = observed[o].tick
             /\ Failed(c)
             /\ pools[d].ret.state = "nil"

\* C14: no tickShard of one issuer is in flight while a tickShard of a
\* different issuer is in flight.
C14_IssuersStrictlySerial ==
    \A c, d \in Calls :
        pools[c].issuer # pools[d].issuer =>
            pools[c].inflight = {} \/ pools[d].inflight = {}

\* C15: once ctx is cancelled, Run eventually returns.
C15_RunReturnsOnCancel == cancelled ~> (runPc = "returned")

\* C16: Run never starts a Tick after ctx has been cancelled.
C16_CancellationWins == [][ticks' # ticks => ~cancelled]_vars


\* ------------------------------------------ properties of the pipeline
\* The payloads of the frames of one kind, in the order they were sent.
RECURSIVE Payloads(_, _)
Payloads(frames, kind) ==
    IF frames = << >>
    THEN << >>
    ELSE LET f == Head(frames)
             rest == Payloads(Tail(frames), kind)
         IN  IF f.kind # kind
             THEN rest
             ELSE IF kind = "entry" THEN <<f.entry>> \o rest
             ELSE IF kind = "chunk" THEN <<f.chunk>> \o rest
             ELSE <<f>> \o rest

\* The concatenation of a sequence of chunks, and the sum of their lengths.
RECURSIVE Concat(_)
Concat(chunks) ==
    IF chunks = << >> THEN << >> ELSE Head(chunks) \o Concat(Tail(chunks))

RECURSIVE SumLen(_)
SumLen(chunks) ==
    IF chunks = << >> THEN 0 ELSE Len(Head(chunks)) + SumLen(Tail(chunks))

ReturnedNilShard == shPc = "returned" /\ shRet = NilError

\* The positions of ops at which op was made, and at which it had outcome e.
OpsOf(op) == {k \in DOMAIN ops : ops[k].op = op}
OpsWith(op, e) == {k \in OpsOf(op) : ops[k].err = e}

\* Every operation at a position of later follows one at a position of
\* earlier.
Follows(later, earlier) == \A k \in later : \E j \in earlier : j < k

\* An operation has failed: any outcome but nil and the end of a stream.
FailedOps == {k \in DOMAIN ops : ops[k].err \notin {NoError, EOF}}

\* C18: in a tickShard call that returns nil the entries sent to the CA are
\* the entries received from the SA, the chunks sent to the publisher are the
\* chunks received from the CA (same order and count), the logged size is
\* the sum of the chunk lengths and the hash is taken over their
\* concatenation.
C18_PipelineFidelity ==
    ReturnedNilShard =>
        /\ Payloads(caSent, "entry") = saRecvd
        /\ Payloads(csSent, "chunk") = caRecvd
        /\ Len(logged) = 1
        /\ logged[1].size = SumLen(caRecvd)
        /\ logged[1].hash = Concat(caRecvd)

\* A successful call that relayed two different entries and two chunks of
\* different lengths.
C18_Witness ==
    /\ ReturnedNilShard
    /\ Len(saRecvd) = 2
    /\ saRecvd[1] # saRecvd[2]
    /\ Len(caRecvd) = 2
    /\ Len(caRecvd[1]) # Len(caRecvd[2])

\* C19: the order of the stream operations of one tickShard call.
C19_StreamProtocolOrder ==
    /\ Cardinality(OpsWith("ca.send.metadata", NoError)) <= 1
    /\ Follows(OpsOf("ca.send.entry"), OpsWith("ca.send.metadata", NoError))
    /\ \A k \in DOMAIN caSent : (caSent[k].kind = "metadata") <=> (k = 1)
    /\ Follows(OpsOf("ca.closeSend"), OpsWith("sa.recv", EOF))
    /\ Follows(OpsOf("cs.open"), OpsWith("ca.closeSend", NoError))
    /\ Follows(OpsOf("ca.recv"), OpsWith("ca.closeSend", NoError))
    /\ Cardinality(OpsWith("cs.send.metadata", NoError)) <= 1
    /\ Follows(OpsOf("cs.send.chunk"), OpsWith("cs.send.metadata", NoError))
    /\ \A k \in DOMAIN csSent : (csSent[k].kind = "metadata") <=> (k = 1)
    /\ Follows(OpsOf("cs.closeAndRecv"), OpsWith("ca.recv", EOF))
    /\ ReturnedNilShard =>
         /\ Cardinality(OpsWith("ca.send.metadata", NoError)) = 1
         /\ Cardinality(OpsWith("cs.send.metadata", NoError)) = 1

\* A call that went through every operation, entries and chunks included.
C19_Witness ==
    /\ shPc = "returned"
    /\ OpsOf("cs.closeAndRecv") # {}
    /\ OpsOf("ca.send.entry") # {}
    /\ OpsOf("cs.send.chunk") # {}

\* C20: a failed stream operation is the last one tickShard makes, nothing
\* is retried, and the returned error names the failing step and carries
\* its cause; tickIssuer wraps it with the shard index.
C20_FailFastNoRetry ==
    /\ \A k \in FailedOps : k = Len(ops)
    /\ \A op \in {"sa.open", "ca.open", "ca.send.metadata", "ca.closeSend",
                  "cs.open", "cs.send.metadata", "cs.closeAndRecv"} :
         Cardinality(OpsOf(op)) <= 1
    /\ FailedOps # {} =>
         /\ shPc = "returned"
         /\ shRet.step = stepOf(ops[Len(ops)].op)
         /\ shRet.cause = ops[Len(ops)].err
         /\ shRet.crlId = crlIdOf(shIssuer, atTime, shardIdx)
         /\ ops[Len(ops)].op = "cs.send.chunk" =>
               shRet.step = "uploading CRL bytes"
         /\ issuerError(0, [shardIdx |-> shardIdx, err |-> shRet])
               = [state |-> "updating shard", shardIdx |-> shardIdx,
                  cause |-> shRet]
    /\ FailedOps = {} => shRet = NilError

\* The upload of the second chunk failed and tickShard returned.
C20_Witness ==
    /\ shPc = "returned"
    /\ Cardinality(OpsOf("cs.send.chunk")) = 2
    /\ ops[Len(ops)] = [op |-> "cs.send.chunk", err |-> RpcFailed]
    /\ shRet.step = "uploading CRL bytes"


\* The streams tickShard has opened.
Opened(stream) == OpsWith(stream \o ".open", NoError) # {}

\* A stream is finished once a receive on it returned the end of the stream
\* or an error, once a send or half-close on it failed, or once
\* close-and-receive was called on it.
Released(stream) ==
    \E k \in DOMAIN ops :
        \/ ops[k].op = stream \o ".recv" /\ ops[k].err # NoError
        \/ /\ ops[k].op \in {stream \o ".send.metadata", stream \o ".send.entry",
                             stream \o ".send.chunk", stream \o ".closeSend"}
           /\ ops[k].err # NoError
        \/ ops[k].op = stream \o ".closeAndRecv"

\* C21: whenever tickShard has returned while ctx is not cancelled, every
\* stream it opened has been released.
C21_StreamsReleasedOnReturn ==
    (shPc = "returned" /\ ~cancelled) =>
        \A stream \in {"sa", "ca", "cs"} : Opened(stream) => Released(stream)

\* The position of the operation that ended a stream that yielded nothing.
EmptyEnd(stream) ==
    {k \in OpsWith(stream \o ".recv", EOF) :
        \A j \in OpsOf(stream \o ".recv") : j >= k}

\* C23: an SA stream that ends before any entry leaves the CA with exactly
\* the Metadata frame, followed by the half-close and then the opening of
\* the publisher stream; a CA stream that ends before any chunk leaves the
\* publisher with exactly the Metadata frame, close-and-receive is made,
\* and when it succeeds tickShard returns nil with logged size 0.
C23_EmptyStreamsFullPipeline ==
    /\ \A k \in EmptyEnd("sa") :
         /\ caSent = <<caMetadata(shIssuer, atTime, shardIdx)>>
         /\ k < Len(ops) => ops[k + 1].op = "ca.closeSend"
         /\ (k + 1 < Len(ops) /\ ops[k + 1].err = NoError) =>
               ops[k + 2].op = "cs.open"
         /\ shPc = "returned" => k < Len(ops)
    /\ \A k \in EmptyEnd("ca") :
         /\ csSent = <<csMetadata(shIssuer, atTime, shardIdx)>>
         /\ k < Len(ops) => ops[k + 1].op = "cs.closeAndRecv"
         /\ shPc = "returned" => k < Len(ops)
         /\ OpsWith("cs.closeAndRecv", NoError) # {} =>
               /\ ReturnedNilShard
               /\ Len(logged) = 1
               /\ logged[1].size = 0
               /\ logged[1].hash = << >>

\* Both streams were empty and tickShard returned nil.
C23_Witness ==
    /\ ReturnedNilShard
    /\ EmptyEnd("sa") # {}
    /\ EmptyEnd("ca") # {}
    /\ saRecvd = << >>
    /\ caRecvd = << >>

\* C24: the "Generated CRL" line is logged only after close-and-receive has
\* succeeded: once by a call that returns nil, never by a call that returns
\* an error.
C24_LogOnlyAfterUpload ==
    /\ Len(logged) <= 1
    /\ logged # << >> => OpsWith("cs.closeAndRecv", NoError) # {}
    /\ ReturnedNilShard => Len(logged) = 1
    /\ (shPc = "returned" /\ shRet # NilError) => logged = << >>


\* ------------------------------------ properties of a whole tick's query
\* Certificates of one issuer around the tick: expired or not, revoked
\* before the tick, at the tick, or not at all.
CertsAt(t) ==
    [issuerNameID : {1},
     expiry       : (t - 1) .. (t + MaxCertLifetime),
     revoked      : BOOLEAN,
     revokedAt    : {t - 1, t}]

\* Some shard of the tick at atTime has the certificate's entry streamed to
\* the CA.
Delivered(cert) ==
    \E i \in 0 .. NumShards - 1 :
        saYields(saRequest(cu[1], cert.issuerNameID, atTime, i), cert)

\* C22: in a tick whose shards all succeed, every certificate revoked
\* before atTime that has not yet expired has its entry delivered in some
\* shard, and no certificate that is not revoked has.
C22_RevocationVisibility ==
    Returned =>
        \A cert \in CertsAt(atTime) :
            /\ (/\ cert.revoked
                /\ cert.revokedAt < atTime
                /\ cert.expiry > atTime
                /\ cert.expiry < atTime + args.certLifetime) => Delivered(cert)
            /\ Delivered(cert) => cert.revoked


\* --------------------------------- properties of the workers of a call
\* The shard indices of a call, in the order the channel yields them.
AllIdxs == [i \in 1 .. cu[1].numShards |-> i - 1]

\* Every worker of the call has returned.
WorkersGone(c) == pools[c].idle = 0 /\ pools[c].inflight = {}

\* C25: while ctx is not cancelled every shard index of a tickIssuer call is
\* passed to tickShard exactly once, in channel order and by one worker,
\* and the workers return only when all of them have been and every result
\* has been sent, also after tickIssuer has returned an error.
C25_StragglersComplete ==
    \A c \in Calls :
        LET pool == pools[c]
        IN  /\ \A j, k \in DOMAIN pool.started :
                 pool.started[j] = pool.started[k] => j = k
            /\ pool.inflight \subseteq {pool.started[k] : k \in DOMAIN pool.started}
            /\ ~cancelled =>
                 /\ pool.started \o pool.idxs = AllIdxs
                 /\ WorkersGone(c) =>
                      /\ pool.started = AllIdxs
                      /\ Len(pool.got) + Len(pool.results) = cu[1].numShards

\* tickIssuer returned on the first result, a failure, and the worker went
\* on to run the remaining shard and leave its result in the channel.
C25_Witness ==
    \E c \in Calls :
        /\ ~cancelled
        /\ Failed(c)
        /\ cu[1].numShards = 2
        /\ cu[1].maxParallelism = 1
        /\ Len(pools[c].got) = 1
        /\ WorkersGone(c)
        /\ Len(pools[c].results) = 1

\* C26: a tickIssuer call never waits for a result when every one of its
\* workers has returned and the result channel is empty, so it goes on to
\* return when each started tickShard returns.
C26_TickIssuerTerminates ==
    runPc = "coord" =>
        LET pool == pools[Len(pools)]
        IN  ~(WorkersGone(Len(pools)) /\ pool.results = << >>)

\* C27: the tickIssuer calls of one Tick are all given the atTime that Tick
\* read, and the SA request, the CA metadata and the publisher metadata of
\* each of their shards carry that atTime in Unix nanoseconds, with the
\* issuerNameID and shardIdx of the shard.
C27_OneTimestampPerTick ==
    \A c \in Calls :
        LET pool == pools[c]
            t    == UnixNano(pool.atTime)
        IN  /\ pool.tick = ticks => pool.atTime = atTime
            /\ \A d \in Calls :
                 pools[d].tick = pool.tick => pools[d].atTime = pool.atTime
            /\ \A k \in DOMAIN pool.started :
                 LET idx == pool.started[k]
                     req == saRequest(cu[1], pool.issuer, pool.atTime, idx)
                     ca  == caMetadata(pool.issuer, pool.atTime, idx)
                     cs  == csMetadata(pool.issuer, pool.atTime, idx)
                 IN  /\ req.revokedBefore = t
                     /\ ca.thisUpdate = t
                     /\ cs.number = t
                     /\ req.issuerNameID = pool.issuer
                     /\ ca.issuerNameID = pool.issuer
                     /\ cs.issuerNameID = pool.issuer
                     /\ ca.shardIdx = idx
                     /\ cs.shardIdx = idx

\* The clock moved on during a Tick, between its two issuers, and a shard
\* of the later one was started.
C27_Witness ==
    \E c, d \in Calls :
        /\ c < d
        /\ pools[c].tick = pools[d].tick
        /\ pools[d].tick = ticks
        /\ pools[d].started # << >>
        /\ now # atTime

\* C28: a worker inside tickShard always finds room for its result in the
\* result channel, since at most numShards results are ever sent, so no
\* worker waits forever; the workers of a call are at the index channel,
\* inside tickShard, or gone.
C28_NoWorkerStranded ==
    \A c \in Calls :
        LET pool == pools[c]
        IN  /\ pool.inflight # {} => Len(pool.results) < resultsCap(cu[1])
            /\ Len(pool.got) + Len(pool.results) + Cardinality(pool.inflight)
                   <= cu[1].numShards
            /\ pool.idle + Cardinality(pool.inflight) + pool.exited
                   = cu[1].maxParallelism

\* tickIssuer returned early and no longer reads; the results of the other
\* shards were sent all the same and every worker has returned.
C28_Witness ==
    \E c \in Calls :
        /\ Failed(c)
        /\ Len(pools[c].got) = 1
        /\ cu[1].numShards = 2
        /\ Len(pools[c].results) = 1
        /\ cu[1].maxParallelism = 2
        /\ pools[c].exited = 2

====
